---- MODULE Spec2Model ----
(***************************************************************************)
(* Model of the k8s-cli controllers of dereban25/go-kubernetes-controllers *)
(*                                                                         *)
(*   SpecFP  the FrontendPage reconciler (controllers/                     *)
(*           frontendpage_controller.go) and the read-only Deployment      *)
(*           controller (cmd/controller.go), one step per cluster API call *)
(*   SpecEP  the informer EventProcessor and its work queue                *)
(*           (cmd/informer.go)                                             *)
(*   SpecLE  two manager processes started with the leader-election        *)
(*           options of cmd/informer.go and the crd command                *)
(*   SpecAPI the EventProcessor with the HTTP server of cmd/api.go         *)
(*   SpecMG  one manager process from start to exit: health probes, cache  *)
(*           sync, reconciles in flight, the shutdown signal               *)
(*   SpecSel the label selector filter of the deployment list requests     *)
(*           (cmd/api.go matchesLabelSelector, cmd/cashe.go)               *)
(*                                                                         *)
(* The parts share no state: each specification leaves the variables of    *)
(* the other parts at their initial values.                                *)
(***************************************************************************)
EXTENDS Integers, Sequences, FiniteSets, TLC

VARIABLES
    \* ---- SpecFP: cluster objects and the reconciler's pass
    fp,          \* the FrontendPage stored in the cluster
    dep,         \* the Deployment <name>-deployment stored in the cluster
    svc,         \* the Service <name>-service stored in the cluster
    rec,         \* FrontendPageReconciler.Reconcile: position and locals
    writes,      \* the write calls the current pass has issued, in order
    passes,      \* completed passes in a row with no outside change (<= 2)
    dc,          \* DeploymentController.Reconcile: its last outcome
    \* ---- SpecEP: the informer EventProcessor
    config,          \* InformerConfig.CustomLogic: the two handling switches
    epPhase,         \* EventProcessor.Start: "new", "syncing", "running", "failed"
    informerStop,    \* the informerStop channel is closed
    informerAlive,   \* the informer goroutine still delivers events
    ctxDone,         \* the context given to Start is cancelled
    store,           \* the informer's own store: key -> last object seen
    deploymentCache, \* EventProcessor.deploymentCache: key -> Deployment
    workqueue,       \* EventProcessor.workqueue: queue, dirty, processing, shuttingDown
    worker,          \* runWorker goroutines: position and item held
    events,          \* informer events delivered so far (<= MaxEvents)
    inflight,        \* item being processed -> Add calls made for it meanwhile
    redeliver,       \* item added while processed, not taken since -> those calls
    api,             \* an API handler goroutine reading e.deploymentCache
    \* ---- SpecLE: two manager processes and the lease they compete for
    lease,       \* the Lease object: its holder
    mgr,         \* per process: flag, state, and its two election timers
    \* ---- SpecMG: one manager process
    proc,        \* the command's main goroutine: command, position, seconds slept
    ctl,         \* the manager: phase, watch stream, work queue, context
    run,         \* the reconcile in flight
    probe,       \* the last answer of /readyz
    \* ---- SpecSel: one Deployment under the label selector filter
    list         \* filterDeployments: labels, labelSelector, position, kept

fpVars == <<fp, dep, svc, rec, writes, passes, dc>>

epVars == <<config, epPhase, informerStop, informerAlive, ctxDone, store,
            deploymentCache, workqueue, worker, events, inflight, redeliver,
            api>>

leVars == <<lease, mgr>>

mgVars == <<proc, ctl, run, probe>>

selVars == <<list>>

vars == <<fp, dep, svc, rec, writes, passes, dc,
          config, epPhase, informerStop, informerAlive, ctxDone, store,
          deploymentCache, workqueue, worker, events, inflight, redeliver, api,
          lease, mgr, proc, ctl, run, probe, list>>

(***************************************************************************)
(* Bounds                                                                  *)
(***************************************************************************)
MaxGeneration == 2    \* metadata.generation of the FrontendPage stays <= this
MaxReplicas == 2      \* spec.replicas and the Deployment's counts stay <= this
MaxEvents == 4        \* informer events delivered to the EventProcessor

(***************************************************************************)
(* Values of the source                                                    *)
(***************************************************************************)
RequeueAfterSeconds == 30
DefaultReplicas == 1
DefaultImage == "nginx:1.20"
FixedEnv == <<"FRONTEND_TITLE", "FRONTEND_DESCRIPTION", "FRONTEND_PATH">>

FPName == "demo"
FPNamespace == "default"
FPUID == "uid-demo"
OtherUID == "uid-other"
NoOwner == ""

DeploymentName(name) == <<name, "-deployment">>
ServiceName(name) == <<name, "-service">>
ServiceURL(svcName, ns, path) == <<"http://", svcName, ".", ns, ".svc.cluster.local", path>>

EmptyStatus ==
    [phase |-> "", ready |-> FALSE, url |-> <<>>, deploymentName |-> <<>>,
     serviceName |-> <<>>, observedGeneration |-> 0, message |-> ""]

NoFrontendPage ==
    [exists |-> FALSE, uid |-> "", generation |-> 0,
     spec |-> [replicas |-> 0, image |-> "", config |-> {}],
     status |-> EmptyStatus]

NoDeployment ==
    [exists |-> FALSE, owner |-> NoOwner, writer |-> "", replicas |-> 0,
     image |-> "", env |-> <<>>, statusReplicas |-> 0, readyReplicas |-> 0]

NoService ==
    [exists |-> FALSE, owner |-> NoOwner, writer |-> "", type |-> "",
     port |-> 0, targetPort |-> 0]

NoResult == [requeueAfter |-> 0, err |-> FALSE]

\* the Deployment controller's outcome, kept until the next FrontendPage pass
NoOutcome == [ran |-> FALSE, notFound |-> FALSE, result |-> NoResult]

IdleRec ==
    [pc |-> "idle", fp |-> NoFrontendPage, stale |-> FALSE,
     firstSight |-> FALSE, seenPhase |-> "", notFound |-> FALSE,
     getFailed |-> FALSE,
     disturbed |-> FALSE,
     depOK |-> FALSE, svcOK |-> FALSE,
     depReplicas |-> 0, depStatusReplicas |-> 0, depReadyReplicas |-> 0,
     message |-> "", result |-> NoResult]

Min(a, b) == IF a < b THEN a ELSE b

\* every order in which a range over the map's keys can yield them
RECURSIVE Orders(_)
Orders(S) ==
    IF S = {} THEN {<<>>}
    ELSE UNION {{<<k>> \o rest : rest \in Orders(S \ {k})} : k \in S}

(***************************************************************************)
(* The cluster API as the reconciler uses it                               *)
(***************************************************************************)
\* one entry of the pass's write log
Call(verb, kind, owner, status, generation, ok) ==
    [verb |-> verb, kind |-> kind, owner |-> owner, phase |-> status.phase,
     ready |-> status.ready, observedGeneration |-> status.observedGeneration,
     generation |-> generation, ok |-> ok]

\* r.Status().Update(ctx, &frontendPage): the server takes the status of the
\* object sent; a copy read before an outside change, or of a deleted object,
\* is refused (conflict, not found)
StatusUpdateAccepted(apiOK) == apiOK /\ fp.exists /\ ~rec.stale

\* an update that stores the spec of the object sent, defaults filled in
StatusSubresourceMutantWholeObject(cur, st) ==
    [cur EXCEPT !.status = st,
                !.spec.replicas = IF @ = 0 THEN DefaultReplicas ELSE @]

\* what the server stores for an accepted r.Status().Update: the status of the
\* object sent, everything else as it was
StatusSubresource(cur, st) ==
    [cur EXCEPT !.status = st]

\* a Reconcile that returns the empty result and nil whatever happened
ReturnMutantDropsErr(r, res) ==
    /\ rec' = [r EXCEPT !.pc = "done", !.result = NoResult, !.fp = NoFrontendPage,
                        !.stale = FALSE, !.disturbed = FALSE]
    /\ passes' = IF r.disturbed THEN 0 ELSE Min(passes + 1, 2)

\* Reconcile returns: the pass is over and its copy of the object is dropped
Return(r, res) ==
    /\ rec' = [r EXCEPT !.pc = "done", !.result = res, !.fp = NoFrontendPage,
                        !.stale = FALSE, !.disturbed = FALSE]
    /\ passes' = IF r.disturbed \/ res.err THEN 0 ELSE Min(passes + 1, 2)

(***************************************************************************)
(* FrontendPageReconciler.Reconcile                                        *)
(***************************************************************************)
StartReconcile ==
    /\ rec.pc \in {"idle", "done"}
    /\ rec' = [IdleRec EXCEPT !.pc = "get"]
    /\ writes' = <<>>
    /\ dc' = NoOutcome
    /\ UNCHANGED <<fp, dep, svc, passes>>
    /\ UNCHANGED <<epVars, leVars, mgVars, selVars>>

\* lines 38-47: fetch; not found is success, any other error is returned
GetFoundMutantErr(apiOK) ==
    IF ~apiOK \/ ~fp.exists
    THEN Return([rec EXCEPT !.notFound = apiOK /\ ~fp.exists],
                [requeueAfter |-> 0, err |-> TRUE])
    ELSE /\ rec' = [rec EXCEPT !.fp = fp, !.firstSight = (fp.status.phase = ""),
                               !.seenPhase = fp.status.phase,
                               !.pc = IF fp.status.phase = "" THEN "pending"
                                      ELSE "deployment"]
         /\ UNCHANGED passes

GetFrontendPage(apiOK) ==
    IF ~apiOK
    THEN Return([rec EXCEPT !.getFailed = TRUE], [requeueAfter |-> 0, err |-> TRUE])
    ELSE IF ~fp.exists
    THEN Return([rec EXCEPT !.notFound = TRUE], NoResult)
    ELSE /\ rec' = [rec EXCEPT !.fp = fp, !.firstSight = (fp.status.phase = ""),
                               !.seenPhase = fp.status.phase,
                               !.pc = IF fp.status.phase = "" THEN "pending"
                                      ELSE "deployment"]
         /\ UNCHANGED passes

ReconcileGet ==
    /\ rec.pc = "get"
    /\ \E apiOK \in BOOLEAN : GetFrontendPage(apiOK)
    /\ UNCHANGED <<fp, dep, svc, writes, dc>>
    /\ UNCHANGED <<epVars, leVars, mgVars, selVars>>

\* lines 57-63: first sight, phase "Pending" persisted before anything else
PendingStatus(f) == [f.status EXCEPT !.phase = "Pending"]

PendingWriteMutantIgnoreErr(apiOK) ==
    LET st == PendingStatus(rec.fp)
        ok == StatusUpdateAccepted(apiOK)
    IN  /\ writes' = Append(writes, Call("statusUpdate", "FrontendPage", NoOwner,
                                         st, rec.fp.generation, ok))
        /\ fp' = IF ok THEN StatusSubresource(fp, st) ELSE fp
        /\ rec' = [rec EXCEPT !.fp.status = st, !.pc = "deployment"]
        /\ UNCHANGED passes

PendingWrite(apiOK) ==
    LET st == PendingStatus(rec.fp)
        ok == StatusUpdateAccepted(apiOK)
    IN  /\ writes' = Append(writes, Call("statusUpdate", "FrontendPage", NoOwner,
                                         st, rec.fp.generation, ok))
        /\ fp' = IF ok THEN StatusSubresource(fp, st) ELSE fp
        /\ IF ok
           THEN /\ rec' = [rec EXCEPT !.fp.status = st, !.pc = "deployment"]
                /\ UNCHANGED passes
           ELSE Return([rec EXCEPT !.fp.status = st],
                       [requeueAfter |-> 0, err |-> TRUE])

ReconcilePending ==
    /\ rec.pc = "pending"
    /\ \E apiOK \in BOOLEAN : PendingWrite(apiOK)
    /\ UNCHANGED <<dep, svc, dc>>
    /\ UNCHANGED <<epVars, leVars, mgVars, selVars>>

(***************************************************************************)
(* createOrUpdateDeployment / createOrUpdateService                        *)
(*                                                                         *)
(* controllerutil.CreateOrUpdate: Get the child; absent: mutate, Create;   *)
(* present: mutate and Update only if the mutated object differs from the  *)
(* one read.  Its Get and its write are taken as one step: a change that   *)
(* falls between the two makes the write fail (conflict, already exists),  *)
(* which the failing outcomes below cover.                                 *)
(***************************************************************************)
DesiredReplicas(f) ==
    IF f.spec.replicas = 0 THEN DefaultReplicas ELSE f.spec.replicas

DesiredImage(f) == IF f.spec.image = "" THEN DefaultImage ELSE f.spec.image

\* lines 172-198: the three fixed entries, then one per config key in the
\* order the range over the map yields them
DesiredEnvs(f) == {FixedEnv \o o : o \in Orders(f.spec.config)}

\* controllerutil.SetControllerReference: refused when the object already has
\* another controller owner, else the owner's UID is recorded
OwnerAfterSetMutantSkip(owner, obj) == obj.owner

OwnerAfterSet(owner, obj) == owner.uid

CanSetControllerReference(owner, obj) == obj.owner \in {NoOwner, owner.uid}

\* the mutate function of lines 129-201 applied to the object read (or to the
\* empty object when none exists)
MutatedDeploymentMutantKeepReplicas(f, obj, env) ==
    [obj EXCEPT !.exists = TRUE, !.owner = OwnerAfterSet(f, obj),
                !.image = DesiredImage(f), !.env = env]

MutatedDeployment(f, obj, env) ==
    [obj EXCEPT !.exists = TRUE, !.owner = OwnerAfterSet(f, obj),
                !.replicas = DesiredReplicas(f), !.image = DesiredImage(f),
                !.env = env]

MutatedService(f, obj) ==
    [obj EXCEPT !.exists = TRUE, !.owner = OwnerAfterSet(f, obj),
                !.type = "ClusterIP", !.port = 80, !.targetPort = 80]

\* what the server stores for an accepted create or update
Stored(obj) == [obj EXCEPT !.writer = "reconciler"]

\* the fields the mutate functions name (owner, replicas, image, environment
\* entries whatever their order; type and ports) are the same in both objects
SameDesired(cur, want) ==
    \A field \in (DOMAIN want) \ {"exists", "writer", "statusReplicas",
                                   "readyReplicas"} :
        IF field = "env"
        THEN {cur.env[i] : i \in DOMAIN cur.env} = {want.env[i] : i \in DOMAIN want.env}
        ELSE cur[field] = want[field]

\* the outcome of CreateOrUpdate on child `cur` with mutated object `want`:
\* the call issued ("create", "update" or "none"), whether it succeeded, the
\* object left in the cluster.  Both mutate functions assign the whole Spec, so
\* every spec field they do not name is empty in `want`; `othersSet` says
\* whether the object read has a value in such a field (a server-side default,
\* the Service's cluster IP), in which case the two differ.
CreateOrUpdate(f, cur, want, getOK, writeOK, othersSet) ==
    IF ~getOK THEN [verb |-> "none", ok |-> FALSE, obj |-> cur, sent |-> cur]
    ELSE IF ~cur.exists
    THEN [verb |-> "create", ok |-> writeOK, sent |-> want,
          obj |-> IF writeOK THEN Stored(want) ELSE cur]
    ELSE IF ~CanSetControllerReference(f, cur)
    THEN [verb |-> "none", ok |-> FALSE, obj |-> cur, sent |-> cur]
    ELSE IF want = cur /\ ~othersSet
    THEN [verb |-> "none", ok |-> TRUE, obj |-> cur, sent |-> cur]
    ELSE [verb |-> "update", ok |-> writeOK, sent |-> want,
          obj |-> IF writeOK THEN Stored(want) ELSE cur]

\* every outcome createOrUpdateDeployment can have on the Deployment `cur`
DeploymentOutcomes(f, cur) ==
    {CreateOrUpdate(f, cur,
                    MutatedDeployment(f, IF cur.exists THEN cur ELSE NoDeployment, env),
                    getOK, writeOK, othersSet)
       : getOK \in BOOLEAN, writeOK \in BOOLEAN, othersSet \in BOOLEAN,
         env \in DesiredEnvs(f)}

\* every outcome createOrUpdateService can have on the Service `cur`
ServiceOutcomes(f, cur) ==
    {CreateOrUpdate(f, cur,
                    MutatedService(f, IF cur.exists THEN cur ELSE NoService),
                    getOK, writeOK, othersSet)
       : getOK \in BOOLEAN, writeOK \in BOOLEAN, othersSet \in BOOLEAN}

\* the log entry of a child write says whether a named field differed between
\* the object read and the object sent
LogChild(out, kind, cur) ==
    IF out.verb = "none" THEN writes
    ELSE Append(writes,
                [differs |-> ~SameDesired(cur, out.sent)]
                    @@ Call(out.verb, kind, out.sent.owner, EmptyStatus, 0, out.ok))

\* lines 65-71
ReconcileDeployment ==
    /\ rec.pc = "deployment"
    /\ \E out \in DeploymentOutcomes(rec.fp, dep) :
         /\ dep' = out.obj
         /\ writes' = LogChild(out, "Deployment", dep)
         /\ rec' = IF out.ok
                   THEN [rec EXCEPT !.pc = "service", !.depOK = TRUE,
                                    !.depReplicas = out.obj.replicas,
                                    !.depStatusReplicas = out.obj.statusReplicas,
                                    !.depReadyReplicas = out.obj.readyReplicas]
                   ELSE [rec EXCEPT !.pc = "failed",
                                    !.message = "deployment error"]
    /\ UNCHANGED <<fp, svc, passes, dc>>
    /\ UNCHANGED <<epVars, leVars, mgVars, selVars>>

\* lines 73-79
ReconcileService ==
    /\ rec.pc = "service"
    /\ \E out \in ServiceOutcomes(rec.fp, svc) :
         /\ svc' = out.obj
         /\ writes' = LogChild(out, "Service", svc)
         /\ rec' = IF out.ok
                   THEN [rec EXCEPT !.pc = "status", !.svcOK = TRUE]
                   ELSE [rec EXCEPT !.pc = "failed",
                                    !.message = "service error",
                                    !.depReplicas = 0,
                                    !.depStatusReplicas = 0,
                                    !.depReadyReplicas = 0]
    /\ UNCHANGED <<fp, dep, passes, dc>>
    /\ UNCHANGED <<epVars, leVars, mgVars, selVars>>

\* an updateStatus that loses the phase it was given
updateStatusMutantClearsPhase(f, phase, ready, message) ==
    [f.status EXCEPT !.phase = "", !.ready = ready, !.message = message,
                     !.observedGeneration = f.generation]

\* lines 252-259: updateStatus; the result of the status update is dropped
updateStatus(f, phase, ready, message) ==
    [f.status EXCEPT !.phase = phase, !.ready = ready, !.message = message,
                     !.observedGeneration = f.generation]

\* lines 69-70 and 77-78: a child failed; status "Failed", then the error is
\* returned together with RequeueAfter
ReconcileFailed ==
    /\ rec.pc = "failed"
    /\ \E apiOK \in BOOLEAN :
         LET st == updateStatus(rec.fp, "Failed", FALSE, rec.message)
             ok == StatusUpdateAccepted(apiOK)
         IN  /\ writes' = Append(writes, Call("statusUpdate", "FrontendPage",
                                              NoOwner, st, rec.fp.generation, ok))
             /\ fp' = IF ok THEN StatusSubresource(fp, st) ELSE fp
             /\ Return([rec EXCEPT !.fp.status = st],
                       [requeueAfter |-> RequeueAfterSeconds, err |-> TRUE])
    /\ UNCHANGED <<dep, svc, dc>>
    /\ UNCHANGED <<epVars, leVars, mgVars, selVars>>

\* line 82
DeploymentReadyMutantOffByOne(statusReplicas, readyReplicas) ==
    readyReplicas = statusReplicas /\ statusReplicas > 1

DeploymentReady(statusReplicas, readyReplicas) ==
    readyReplicas = statusReplicas /\ statusReplicas > 0

\* a final status that leaves the phase as it was read
FinalStatusMutantKeepsPhase(f, ready) ==
    [phase |-> f.status.phase,
     ready |-> ready,
     url |-> ServiceURL(ServiceName(FPName), FPNamespace, "/path"),
     deploymentName |-> DeploymentName(FPName),
     serviceName |-> ServiceName(FPName),
     observedGeneration |-> f.generation,
     message |-> IF ready THEN "is ready" ELSE "is not ready yet"]

\* lines 85-104
FinalStatusMutantRunning(f, ready) ==
    [phase |-> "Running",
     ready |-> ready,
     url |-> ServiceURL(ServiceName(FPName), FPNamespace, "/path"),
     deploymentName |-> DeploymentName(FPName),
     serviceName |-> ServiceName(FPName),
     observedGeneration |-> f.generation,
     message |-> IF ready THEN "is ready" ELSE "is not ready yet"]

FinalStatus(f, ready) ==
    [phase |-> IF ready THEN "Running" ELSE "Pending",
     ready |-> ready,
     url |-> ServiceURL(ServiceName(FPName), FPNamespace, "/path"),
     deploymentName |-> DeploymentName(FPName),
     serviceName |-> ServiceName(FPName),
     observedGeneration |-> f.generation,
     message |-> IF ready THEN "is ready" ELSE "is not ready yet"]

\* lines 81-118
ReconcileStatus ==
    /\ rec.pc = "status"
    /\ \E apiOK \in BOOLEAN :
         LET ready == DeploymentReady(rec.depStatusReplicas, rec.depReadyReplicas)
             st == FinalStatus(rec.fp, ready)
             ok == StatusUpdateAccepted(apiOK)
         IN  /\ writes' = Append(writes, Call("statusUpdate", "FrontendPage",
                                              NoOwner, st, rec.fp.generation, ok))
             /\ fp' = IF ok THEN StatusSubresource(fp, st) ELSE fp
             /\ Return([rec EXCEPT !.fp.status = st],
                       IF ~ok THEN [requeueAfter |-> 0, err |-> TRUE]
                       ELSE IF ready THEN NoResult
                       ELSE [requeueAfter |-> RequeueAfterSeconds, err |-> FALSE])
    /\ UNCHANGED <<dep, svc, dc>>
    /\ UNCHANGED <<epVars, leVars, mgVars, selVars>>

(***************************************************************************)
(* DeploymentController.Reconcile (cmd/controller.go): one Get, no write   *)
(***************************************************************************)
DeploymentControllerResultMutantStatusReplicas(apiOK, d) ==
    IF ~apiOK THEN [requeueAfter |-> 0, err |-> TRUE]
    ELSE IF ~d.exists THEN NoResult
    ELSE IF d.readyReplicas # d.statusReplicas
    THEN [requeueAfter |-> RequeueAfterSeconds, err |-> FALSE]
    ELSE NoResult

DeploymentControllerResult(apiOK, d) ==
    IF ~apiOK THEN [requeueAfter |-> 0, err |-> TRUE]
    ELSE IF ~d.exists THEN NoResult
    ELSE IF d.readyReplicas # d.replicas
    THEN [requeueAfter |-> RequeueAfterSeconds, err |-> FALSE]
    ELSE NoResult

\* It reads the Deployment and changes nothing, so where it falls between the
\* FrontendPage reconciler's steps makes no difference: it is run between passes
DeploymentControllerReconcile ==
    /\ rec.pc \in {"idle", "done"}
    /\ \E apiOK \in BOOLEAN :
         dc' = [ran |-> TRUE, notFound |-> apiOK /\ ~dep.exists,
                result |-> DeploymentControllerResult(apiOK, dep)]
    /\ dc'  # dc
    /\ UNCHANGED <<fp, dep, svc, rec, writes, passes>>
    /\ UNCHANGED <<epVars, leVars, mgVars, selVars>>

(***************************************************************************)
(* What the controller built by SetupWithManager does with the value       *)
(* Reconcile returns (controller-runtime's reconcileHandler): an error     *)
(* puts the key back through the rate limiter, whose delay grows with each *)
(* failure, and the Result is not looked at; without an error a            *)
(* RequeueAfter puts it back after exactly that delay; else it is dropped  *)
(* until the next event.                                                   *)
(***************************************************************************)
Requeue(res) ==
    IF res.err THEN [how |-> "rateLimited", seconds |-> 0]
    ELSE IF res.requeueAfter > 0 THEN [how |-> "after", seconds |-> res.requeueAfter]
    ELSE [how |-> "forget", seconds |-> 0]

(***************************************************************************)
(* The rest of the cluster: clients editing and deleting the FrontendPage, *)
(* the platform's deployment controller and garbage collector              *)
(***************************************************************************)
\* an outside change.  A pass in progress is no longer undisturbed, and its copy
\* of the FrontendPage is out of date once the FrontendPage itself changed.  The
\* record of a finished pass (rec, writes, dc) is kept only up to the next
\* outside change.
Disturbed(r, fpChanged) ==
    IF r.pc \in {"idle", "done"} THEN IdleRec
    ELSE [r EXCEPT !.disturbed = TRUE,
                   !.stale = @ \/ (fpChanged /\ r.pc # "get")]

Outside(fpChanged) ==
    /\ rec' = Disturbed(rec, fpChanged)
    /\ writes' = IF rec.pc \in {"idle", "done"} THEN <<>> ELSE writes
    /\ passes' = 0
    /\ dc' = NoOutcome

EditSpec ==
    /\ fp.exists
    /\ fp.generation < MaxGeneration
    /\ \E n \in (0..MaxReplicas) \ {fp.spec.replicas} :
         fp' = [fp EXCEPT !.spec.replicas = n, !.generation = @ + 1]
    /\ Outside(TRUE)
    /\ UNCHANGED <<dep, svc>>
    /\ UNCHANGED <<epVars, leVars, mgVars, selVars>>

DeleteFrontendPage ==
    /\ fp.exists
    /\ fp' = NoFrontendPage
    /\ Outside(TRUE)
    /\ UNCHANGED <<dep, svc>>
    /\ UNCHANGED <<epVars, leVars, mgVars, selVars>>

\* the platform reports the Deployment's replica counts: up to spec.replicas
\* pods, any number of them ready
DeploymentStatusChange ==
    /\ dep.exists
    /\ \E sr \in 0..dep.replicas : \E rr \in 0..sr :
         /\ <<sr, rr>> # <<dep.statusReplicas, dep.readyReplicas>>
         /\ dep' = [dep EXCEPT !.statusReplicas = sr, !.readyReplicas = rr]
    /\ Outside(FALSE)
    /\ UNCHANGED <<fp, svc>>
    /\ UNCHANGED <<epVars, leVars, mgVars, selVars>>

\* children whose owner is gone are collected by the platform
GarbageCollect ==
    /\ ~fp.exists
    /\ \/ /\ dep.exists /\ dep.owner = FPUID
          /\ dep' = NoDeployment
          /\ UNCHANGED svc
       \/ /\ svc.exists /\ svc.owner = FPUID
          /\ svc' = NoService
          /\ UNCHANGED dep
    /\ Outside(FALSE)
    /\ UNCHANGED <<fp>>
    /\ UNCHANGED <<epVars, leVars, mgVars, selVars>>

ExternalDeployments ==
    {[NoDeployment EXCEPT !.exists = TRUE, !.owner = o, !.writer = "external",
                          !.replicas = 1, !.image = DefaultImage, !.env = FixedEnv]
       : o \in {OtherUID}}

ExternalServices ==
    {[NoService EXCEPT !.exists = TRUE, !.owner = OtherUID, !.writer = "external",
                       !.type = "ClusterIP", !.port = 80, !.targetPort = 80]}

\* the FrontendPages a client creates: one that leaves replicas, image and
\* config out (0, "", empty), and one that gives them, with two config keys,
\* one of them a FRONTEND_ name
FrontendPageSpecs ==
    {[replicas |-> 0, image |-> "", config |-> {}],
     [replicas |-> MaxReplicas, image |-> "nginx:1.21",
      config |-> {"ENVIRONMENT", "FRONTEND_PATH"}]}

ClusterAtStart ==
    /\ \E sp \in FrontendPageSpecs :
         fp = [exists |-> TRUE, uid |-> FPUID, generation |-> 1,
               spec |-> sp, status |-> EmptyStatus]
    /\ \E children \in ({NoDeployment} \X {NoService})
                           \cup (ExternalDeployments \X {NoService})
                           \cup ({NoDeployment} \X ExternalServices) :
         /\ dep = children[1]
         /\ svc = children[2]
    /\ rec = IdleRec
    /\ writes = <<>>
    /\ passes = 0
    /\ dc = NoOutcome

(***************************************************************************)
(* The EventProcessor of cmd/informer.go                                   *)
(***************************************************************************)
DefaultWorkers == 2

Keys == {"default/web", "default/api"}
Ops == {"add", "update", "delete"}
Workers == 1..DefaultWorkers

\* fmt.Sprintf("add:%s", key) and its two siblings: the string put in the queue
WorkItem(op, key) == <<op, ":", key>>
Items == {WorkItem(op, k) : op \in Ops, k \in Keys}
ItemKey(item) == item[3]
NoItem == <<>>

\* a Go map: m[key] = value and delete(m, key)
EmptyMap == <<>>
Put(m, key, value) == (key :> value) @@ m
Delete(m, key) == [k \in DOMAIN m \ {key} |-> m[k]]

Images == {DefaultImage, "nginx:1.21"}

\* a Deployment as the informer first lists it
CreatedDeployment ==
    [replicas |-> 1, image |-> DefaultImage, generation |-> 1, readyReplicas |-> 0]

\* what the cluster can turn a Deployment into: a scaling or an image change
\* (both bump metadata.generation), a change of status only, or nothing at all
\* (the periodic resync hands the handler the same object twice)
Changed(d) ==
    {[d EXCEPT !.replicas = n, !.generation = @ + 1]
        : n \in (1..MaxReplicas) \ {d.replicas}}
    \cup {[d EXCEPT !.image = i, !.generation = @ + 1] : i \in Images \ {d.image}}
    \cup {[d EXCEPT !.readyReplicas = r] : r \in (0..d.replicas) \ {d.readyReplicas}}
    \cup {d}

NoAdds == [calls |-> 0, accepted |-> 0]

EmptyQueue ==
    [queue |-> <<>>, dirty |-> {}, processing |-> {}, shuttingDown |-> FALSE]

Count(q, item) == Cardinality({i \in DOMAIN q : q[i] = item})

\* workqueue.Add without the dirty set: every call appends
QueueAddMutantNoDirty(q, item) ==
    IF q.shuttingDown THEN q
    ELSE IF item \in q.processing THEN [q EXCEPT !.dirty = @ \cup {item}]
    ELSE [q EXCEPT !.dirty = @ \cup {item}, !.queue = Append(@, item)]

\* e.workqueue.Add(item): dropped once the queue is shutting down; nothing new
\* for an item already marked dirty; an item being processed is only marked
QueueAdd(q, item) ==
    IF q.shuttingDown THEN q
    ELSE IF item \in q.dirty THEN q
    ELSE IF item \in q.processing THEN [q EXCEPT !.dirty = @ \cup {item}]
    ELSE [q EXCEPT !.dirty = @ \cup {item}, !.queue = Append(@, item)]

\* e.workqueue.Get() handing out the head of the queue
QueueGet(q) ==
    [q EXCEPT !.queue = Tail(@), !.processing = @ \cup {Head(q.queue)},
              !.dirty = @ \ {Head(q.queue)}]

\* e.workqueue.Done(item): an item marked dirty meanwhile goes back in the queue
QueueDone(q, item) ==
    [q EXCEPT !.processing = @ \ {item},
              !.queue = IF item \in q.dirty THEN Append(@, item) ELSE @]

\* a handler's e.workqueue.Add(item), with the count of calls that arrive while
\* the item is being processed
Enqueue(item) ==
    /\ workqueue' = QueueAdd(workqueue, item)
    /\ inflight' =
         IF item \in DOMAIN inflight
         THEN [inflight EXCEPT ![item] =
                 [calls |-> @.calls + 1,
                  accepted |-> @.accepted + IF workqueue.shuttingDown THEN 0 ELSE 1]]
         ELSE inflight

NoRequest == [pc |-> "idle", overlapped |-> FALSE]

\* a handler's write to e.deploymentCache, which no lock guards: it goes ahead
\* while an API handler is inside its read of the map
CacheWritten(a) ==
    IF a.pc = "reading" THEN [a EXCEPT !.overlapped = TRUE] ELSE a

\* a comparison that looks at the replica count only
hasSignificantChangesMutantReplicasOnly(old, new) ==
    old.replicas # new.replicas

\* lines 208-229
hasSignificantChanges(old, new) ==
    \/ old.replicas # new.replicas
    \/ old.image # new.image
    \/ old.generation # new.generation

\* lines 151-168
handleAddEvent(key, deployment) ==
    /\ deploymentCache' = Put(deploymentCache, key, deployment)
    /\ api' = CacheWritten(api)
    /\ Enqueue(WorkItem("add", key))

\* lines 170-188
handleUpdateEvent(key, oldDeployment, newDeployment) ==
    IF ~config.EnableUpdateHandling
    THEN UNCHANGED <<deploymentCache, workqueue, inflight, api>>
    ELSE /\ deploymentCache' = Put(deploymentCache, key, newDeployment)
         /\ api' = CacheWritten(api)
         /\ IF hasSignificantChanges(oldDeployment, newDeployment)
            THEN Enqueue(WorkItem("update", key))
            ELSE UNCHANGED <<workqueue, inflight>>

\* lines 190-205
handleDeleteEvent(key) ==
    IF ~config.EnableDeleteHandling
    THEN UNCHANGED <<deploymentCache, workqueue, inflight, api>>
    ELSE /\ deploymentCache' = Delete(deploymentCache, key)
         /\ api' = CacheWritten(api)
         /\ Enqueue(WorkItem("delete", key))

\* the informer goroutine delivers while it has not yet seen the stop channel
\* closed
Delivering ==
    /\ informerAlive
    /\ epPhase \in {"syncing", "running"}
    /\ events < MaxEvents

Delivered ==
    /\ events' = events + 1
    /\ UNCHANGED <<config, epPhase, informerStop, informerAlive, ctxDone, worker,
                   redeliver>>

\* lines 94-103: AddFunc
InformerAdd ==
    /\ Delivering
    /\ \E k \in Keys :
         /\ k \notin DOMAIN store
         /\ store' = Put(store, k, CreatedDeployment)
         /\ handleAddEvent(k, CreatedDeployment)
    /\ Delivered
    /\ UNCHANGED <<fpVars, leVars, mgVars, selVars>>

\* lines 104-114: UpdateFunc, after the initial list
InformerUpdate ==
    /\ Delivering
    /\ epPhase = "running"
    /\ \E k \in DOMAIN store :
         /\ \E new \in Changed(store[k]) :
              /\ store' = Put(store, k, new)
              /\ handleUpdateEvent(k, store[k], new)
    /\ Delivered
    /\ UNCHANGED <<fpVars, leVars, mgVars, selVars>>

\* lines 115-124: DeleteFunc.  After a missed watch event the informer hands
\* over a tombstone instead of the Deployment; the type assertion fails and the
\* handler is not called.
InformerDelete ==
    /\ Delivering
    /\ epPhase = "running"
    /\ \E k \in DOMAIN store :
         /\ store' = Delete(store, k)
         /\ \E tombstone \in BOOLEAN :
              IF tombstone
              THEN UNCHANGED <<deploymentCache, workqueue, inflight, api>>
              ELSE handleDeleteEvent(k)
    /\ Delivered
    /\ UNCHANGED <<fpVars, leVars, mgVars, selVars>>

\* the informer goroutine notices that its stop channel is closed
InformerExit ==
    /\ informerAlive
    /\ informerStop
    /\ informerAlive' = FALSE
    /\ UNCHANGED <<api, config, epPhase, informerStop, ctxDone, store, deploymentCache,
                   workqueue, worker, events, inflight, redeliver>>
    /\ UNCHANGED <<fpVars, leVars, mgVars, selVars>>

\* Start, lines 83-127: handlers registered, informerFactory.Start
StartInformer ==
    /\ epPhase = "new"
    /\ epPhase' = "syncing"
    /\ informerAlive' = TRUE
    /\ UNCHANGED <<api, config, informerStop, ctxDone, store, deploymentCache,
                   workqueue, worker, events, inflight, redeliver>>
    /\ UNCHANGED <<fpVars, leVars, mgVars, selVars>>

\* a Start that launches the workers before it waits for the sync
StartWorkersMutantBeforeSync ==
    /\ epPhase = "syncing"
    /\ \/ /\ epPhase' = "running"
          /\ worker' = [w \in Workers |-> [pc |-> "select", item |-> NoItem]]
       \/ /\ ctxDone
          /\ epPhase' = "failed"
          /\ worker' = [w \in Workers |-> [pc |-> "select", item |-> NoItem]]
    /\ UNCHANGED <<api, config, informerStop, informerAlive, ctxDone, store,
                   deploymentCache, workqueue, events, inflight, redeliver>>
    /\ UNCHANGED <<fpVars, leVars, mgVars, selVars>>

\* Start, lines 129-141: WaitForCacheSync, then one goroutine per worker
StartWorkers ==
    /\ epPhase = "syncing"
    /\ \/ /\ epPhase' = "running"
          /\ worker' = [w \in Workers |-> [pc |-> "select", item |-> NoItem]]
       \/ /\ ctxDone
          /\ epPhase' = "failed"
          /\ UNCHANGED worker
    /\ UNCHANGED <<api, config, informerStop, informerAlive, ctxDone, store,
                   deploymentCache, workqueue, events, inflight, redeliver>>
    /\ UNCHANGED <<fpVars, leVars, mgVars, selVars>>

\* lines 144-148
Stop ==
    /\ epPhase \in {"running", "failed"}
    /\ ~informerStop
    /\ informerStop' = TRUE
    /\ workqueue' = [workqueue EXCEPT !.shuttingDown = TRUE]
    /\ UNCHANGED <<api, config, epPhase, informerAlive, ctxDone, store,
                   deploymentCache, worker, events, inflight, redeliver>>
    /\ UNCHANGED <<fpVars, leVars, mgVars, selVars>>

\* the caller's cancel(), or the deadline of the context it passed
CancelContext ==
    /\ ~ctxDone
    /\ ctxDone' = TRUE
    /\ UNCHANGED <<api, config, epPhase, informerStop, informerAlive, store,
                   deploymentCache, workqueue, worker, events, inflight, redeliver>>
    /\ UNCHANGED <<fpVars, leVars, mgVars, selVars>>

\* runWorker, lines 283-286: the select at the top of the loop
WorkerSelect(w) ==
    /\ worker[w].pc = "select"
    /\ worker' = [worker EXCEPT ![w].pc = IF ctxDone THEN "exited" ELSE "get"]
    /\ UNCHANGED <<api, config, epPhase, informerStop, informerAlive, ctxDone, store,
                   deploymentCache, workqueue, events, inflight, redeliver>>
    /\ UNCHANGED <<fpVars, leVars, mgVars, selVars>>

\* runWorker, lines 287-290: Get blocks while the queue is empty and open
WorkerGet(w) ==
    /\ worker[w].pc = "get"
    /\ \/ /\ workqueue.queue # <<>>
          /\ workqueue' = QueueGet(workqueue)
          /\ worker' = [worker EXCEPT ![w] =
                          [pc |-> "process", item |-> Head(workqueue.queue)]]
          /\ inflight' = Put(inflight, Head(workqueue.queue), NoAdds)
          /\ redeliver' = Delete(redeliver, Head(workqueue.queue))
       \/ /\ workqueue.queue = <<>>
          /\ workqueue.shuttingDown
          /\ worker' = [worker EXCEPT ![w].pc = "exited"]
          /\ UNCHANGED <<workqueue, inflight, redeliver>>
    /\ UNCHANGED <<api, config, epPhase, informerStop, informerAlive, ctxDone, store,
                   deploymentCache, events>>
    /\ UNCHANGED <<fpVars, leVars, mgVars, selVars>>

\* runWorker, lines 292-298: the item is logged and marked done
WorkerDone(w) ==
    /\ worker[w].pc = "process"
    /\ workqueue' = QueueDone(workqueue, worker[w].item)
    /\ worker' = [worker EXCEPT ![w] = [pc |-> "select", item |-> NoItem]]
    /\ redeliver' = IF inflight[worker[w].item].calls > 0
                    THEN Put(redeliver, worker[w].item, inflight[worker[w].item])
                    ELSE redeliver
    /\ inflight' = Delete(inflight, worker[w].item)
    /\ UNCHANGED <<api, config, epPhase, informerStop, informerAlive, ctxDone, store,
                   deploymentCache, events>>
    /\ UNCHANGED <<fpVars, leVars, mgVars, selVars>>

NotFound == [found |-> FALSE]

\* cmd/cashe.go lines 457-469 (and api.go lines 169-190): the entry of the local
\* map when there is one, else the informer's own store, else nothing
getDeploymentFromCache(key) ==
    IF key \in DOMAIN deploymentCache THEN [found |-> TRUE, deployment |-> deploymentCache[key]]
    ELSE IF key \in DOMAIN store THEN [found |-> TRUE, deployment |-> store[key]]
    ELSE NotFound

\* cmd/api.go: an HTTP handler goroutine reaches its read of the map (the lookup
\* of line 169, the len of line 211); the server is started once Start has
\* returned (line 418)
ApiRead ==
    /\ epPhase = "running"
    /\ api.pc = "idle"
    /\ api' = [pc |-> "reading", overlapped |-> FALSE]
    /\ UNCHANGED <<config, epPhase, informerStop, informerAlive, ctxDone, store,
                   deploymentCache, workqueue, worker, events, inflight, redeliver>>
    /\ UNCHANGED <<fpVars, leVars, mgVars, selVars>>

\* the read is over.  A read that a write overlapped is a data race on a Go
\* map: it yields some entry, or the runtime ends the process ("concurrent map
\* read and map write")
ApiReturn ==
    /\ api.pc = "reading"
    /\ \/ /\ api' = NoRequest
          /\ UNCHANGED <<epPhase, informerAlive, worker>>
       \/ /\ api.overlapped
          /\ api' = [api EXCEPT !.pc = "fatal"]
          /\ epPhase' = "crashed"
          /\ informerAlive' = FALSE
          /\ worker' = [w \in Workers |-> [worker[w] EXCEPT !.pc = "exited"]]
    /\ UNCHANGED <<config, informerStop, ctxDone, store, deploymentCache,
                   workqueue, events, inflight, redeliver>>
    /\ UNCHANGED <<fpVars, leVars, mgVars, selVars>>

\* NewEventProcessor, lines 71-80, with the switches of the loaded configuration
NewEventProcessor ==
    /\ config \in [EnableUpdateHandling : BOOLEAN, EnableDeleteHandling : BOOLEAN]
    /\ epPhase = "new"
    /\ informerStop = FALSE
    /\ informerAlive = FALSE
    /\ ctxDone = FALSE
    /\ store = EmptyMap
    /\ deploymentCache = EmptyMap
    /\ workqueue = EmptyQueue
    /\ worker = [w \in Workers |-> [pc |-> "new", item |-> NoItem]]
    /\ events = 0
    /\ inflight = EmptyMap
    /\ redeliver = EmptyMap
    /\ api = NoRequest

(***************************************************************************)
(* Two manager processes and the lease (cmd/informer.go runManager, the    *)
(* crd command's runCRDController).  The options leave LeaseDuration,      *)
(* RenewDeadline and RetryPeriod unset, so the manager runs the election   *)
(* with controller-runtime's 15 s, 10 s and 2 s; time is counted in        *)
(* seconds on one clock, and a call to the API server takes no time.       *)
(***************************************************************************)
LeaseDuration == 15
RenewDeadline == 10
RetryPeriod == 2

Instances == {1, 2}
NoHolder == 0

Other(i) == CHOOSE j \in Instances : j # i

NewManager(leaderElection) ==
    [config |-> [LeaderElection |-> leaderElection], state |-> "new",
     observedAge |-> 0, renewAge |-> 0, unseen |-> TRUE, led |-> FALSE]

\* options that drop the flag: the manager starts without an election
ManagerOptionsMutantNoElection(cfg) == [LeaderElection |-> FALSE]

\* ctrl.Options{..., LeaderElection: config.LeaderElection, ...}
ManagerOptions(cfg) == [LeaderElection |-> cfg.LeaderElection]

Elects(i) == ManagerOptions(mgr[i].config).LeaderElection

\* the instance's controllers are started and reconciling
Active(i) == mgr[i].state = "leading"

\* cm.Start / mgr.Start: without election the controllers start at once, with
\* it the process becomes a candidate for the lease
ManagerStart(i) ==
    /\ mgr[i].state = "new"
    /\ mgr' = [mgr EXCEPT ![i].state = IF Elects(i) THEN "waiting" ELSE "leading",
                          ![i].led = ~Elects(i)]
    /\ UNCHANGED lease
    /\ UNCHANGED <<fpVars, epVars, mgVars, selVars>>

\* a candidate reads a lease record it has not seen in this form: it notes the
\* time and waits a full LeaseDuration from now
Observe(i) ==
    /\ mgr[i].state = "waiting"
    /\ lease.holder # NoHolder
    /\ mgr[i].unseen
    /\ mgr' = [mgr EXCEPT ![i].unseen = FALSE, ![i].observedAge = 0]
    /\ UNCHANGED lease
    /\ UNCHANGED <<fpVars, epVars, mgVars, selVars>>

\* a candidate that takes the lease without waiting for it to expire
AcquireMutantNoWait(i) ==
    /\ mgr[i].state = "waiting"
    /\ lease' = [holder |-> i]
    /\ mgr' = [mgr EXCEPT ![i].state = "leading", ![i].led = TRUE,
                          ![i].observedAge = 0, ![i].renewAge = 0,
                          ![Other(i)].unseen = TRUE]
    /\ UNCHANGED <<fpVars, epVars, mgVars, selVars>>

\* a candidate takes the lease: there is none, or the record it observed has
\* not changed for LeaseDuration; its controllers start
Acquire(i) ==
    /\ mgr[i].state = "waiting"
    /\ \/ lease.holder = NoHolder
       \/ ~mgr[i].unseen /\ mgr[i].observedAge >= LeaseDuration
    /\ lease' = [holder |-> i]
    /\ mgr' = [mgr EXCEPT ![i].state = "leading", ![i].led = TRUE,
                          ![i].observedAge = 0, ![i].renewAge = 0,
                          ![Other(i)].unseen = TRUE]
    /\ UNCHANGED <<fpVars, epVars, mgVars, selVars>>

\* the leader's renewal reaches the API server
Renew(i) ==
    /\ mgr[i].state = "leading"
    /\ Elects(i)
    /\ lease.holder = i
    /\ mgr[i].renewAge > 0
    /\ mgr' = [mgr EXCEPT ![i].renewAge = 0, ![Other(i)].unseen = TRUE]
    /\ UNCHANGED lease
    /\ UNCHANGED <<fpVars, epVars, mgVars, selVars>>

\* no renewal got through within the deadline: the manager's Start returns
\* "leader election lost", and the caller ends the process with log.Fatalf.
\* renewAge stays at the age the last renewal had when the leader gave up.
LoseLease(i) ==
    /\ mgr[i].state = "leading"
    /\ Elects(i)
    /\ mgr[i].renewAge >= RenewDeadline
    /\ mgr' = [mgr EXCEPT ![i].state = "exited"]
    /\ UNCHANGED lease
    /\ UNCHANGED <<fpVars, epVars, mgVars, selVars>>

\* the process is killed, or gets its signal and returns from the command;
\* the lease is not released
Crash(i) ==
    /\ mgr[i].state \in {"waiting", "leading"}
    /\ mgr' = [mgr EXCEPT ![i].state = "exited", ![i].renewAge = 0,
                          ![i].observedAge = 0]
    /\ UNCHANGED lease
    /\ UNCHANGED <<fpVars, epVars, mgVars, selVars>>

\* one second passes.  A renewal round starts at most RetryPeriod after the
\* last renewal and gives up RenewDeadline later.
Tick ==
    /\ \A i \in Instances :
         (mgr[i].state = "leading" /\ Elects(i))
             => mgr[i].renewAge < RenewDeadline + RetryPeriod
    /\ mgr' = [i \in Instances |->
                 IF mgr[i].state = "waiting" /\ ~mgr[i].unseen
                 THEN [mgr[i] EXCEPT !.observedAge = Min(@ + 1, LeaseDuration)]
                 ELSE IF mgr[i].state = "leading" /\ Elects(i)
                 THEN [mgr[i] EXCEPT !.renewAge = @ + 1]
                 ELSE mgr[i]]
    /\ mgr' # mgr
    /\ UNCHANGED lease
    /\ UNCHANGED <<fpVars, epVars, mgVars, selVars>>

\* the enable-leader-election flag of each process
ManagerFlags ==
    /\ lease = [holder |-> NoHolder]
    /\ \E flags \in [Instances -> BOOLEAN] :
         mgr = [i \in Instances |-> NewManager(flags[i])]

(***************************************************************************)
(* One manager process (cmd/controller.go runController, cmd/informer.go   *)
(* runManager, the crd command's runCRDController): mgr.Start in a         *)
(* goroutine, the main goroutine waiting for a signal.  Start brings up    *)
(* the health probe server first, then the caches, then the controllers.   *)
(***************************************************************************)
MaxPending == 2
MaxCalls == 2

ManagerCommands == {"controller", "manager", "crd"}

\* what the main goroutine does between cancel() and its return: nothing in
\* runController, time.Sleep(2 * time.Second) in the other two
ShutdownSleep(cmd) == IF cmd = "controller" THEN 0 ELSE 2

NoReconcile == [pc |-> "idle", sawCancel |-> FALSE, calls |-> 0]
NoProbe == [code |-> 0, synced |-> FALSE, watch |-> "ok"]

Alive == proc.pc # "exited"

\* mgr.AddReadyzCheck("readyz", healthz.Ping): Ping returns nil whatever the
\* state of the manager, and the endpoint answers 200
ReadyzCheck(c) == 200

\* mgr.Start: the health probe server listens
StartProbes ==
    /\ Alive
    /\ ctl.phase = "new"
    /\ ctl' = [ctl EXCEPT !.phase = "serving"]
    /\ UNCHANGED <<proc, run, probe>>
    /\ UNCHANGED <<fpVars, epVars, leVars, selVars>>

\* the caches complete their initial list and the controllers start
CacheSync ==
    /\ Alive
    /\ ctl.phase = "serving"
    /\ ctl.watch = "ok"
    /\ ~ctl.cancelled
    /\ ctl' = [ctl EXCEPT !.phase = "running"]
    /\ UNCHANGED <<proc, run, probe>>
    /\ UNCHANGED <<fpVars, epVars, leVars, selVars>>

\* the list/watch keeps failing and the caches do not sync within the
\* controller's cache sync timeout: Start returns the error and the goroutine
\* that called it ends the process with log.Fatalf
CacheSyncTimeout ==
    /\ Alive
    /\ ctl.phase = "serving"
    /\ ctl.watch = "failing"
    /\ ctl' = [ctl EXCEPT !.phase = "failed"]
    /\ proc' = [proc EXCEPT !.pc = "exited"]
    /\ UNCHANGED <<run, probe>>
    /\ UNCHANGED <<fpVars, epVars, leVars, selVars>>

\* the API server becomes unreachable, or reachable again; the reflector
\* retries the watch with backoff for as long as the process lives
WatchChange ==
    /\ Alive
    /\ ctl.phase \in {"serving", "running"}
    /\ ctl' = [ctl EXCEPT !.watch = IF @ = "ok" THEN "failing" ELSE "ok"]
    /\ UNCHANGED <<proc, run, probe>>
    /\ UNCHANGED <<fpVars, epVars, leVars, selVars>>

\* a watch event puts a key in the controller's queue; the queue is shut down
\* when the context is cancelled and takes nothing after that
EventArrives ==
    /\ Alive
    /\ ctl.phase = "running"
    /\ ctl.watch = "ok"
    /\ ~ctl.cancelled
    /\ ctl.queue < MaxPending
    /\ ctl' = [ctl EXCEPT !.queue = @ + 1]
    /\ UNCHANGED <<proc, run, probe>>
    /\ UNCHANGED <<fpVars, epVars, leVars, selVars>>

\* the controller's worker takes a key and calls Reconcile, which makes up to
\* MaxCalls API calls; keys left in a queue that was shut down are still taken
ReconcileBegin ==
    /\ Alive
    /\ ctl.phase = "running"
    /\ run.pc = "idle"
    /\ ctl.queue > 0
    /\ ctl' = [ctl EXCEPT !.queue = @ - 1]
    /\ \E n \in 1..MaxCalls :
         run' = [pc |-> "running", sawCancel |-> FALSE, calls |-> n]
    /\ UNCHANGED <<proc, probe>>
    /\ UNCHANGED <<fpVars, epVars, leVars, selVars>>

\* Reconcile makes its next API call; with the context cancelled the call
\* fails, which is where the pass learns of the cancellation
ReconcileCall ==
    /\ Alive
    /\ run.pc = "running"
    /\ run.calls > 0
    /\ run' = IF ctl.cancelled
              THEN [run EXCEPT !.sawCancel = TRUE, !.calls = 0]
              ELSE [run EXCEPT !.calls = @ - 1]
    /\ UNCHANGED <<proc, ctl, probe>>
    /\ UNCHANGED <<fpVars, epVars, leVars, selVars>>

ReconcileReturn ==
    /\ Alive
    /\ run.pc = "running"
    /\ run.calls = 0
    /\ run' = NoReconcile
    /\ UNCHANGED <<proc, ctl, probe>>
    /\ UNCHANGED <<fpVars, epVars, leVars, selVars>>

\* SIGINT or SIGTERM: the main goroutine leaves <-signalChan and calls cancel()
Signal ==
    /\ proc.pc = "waiting"
    /\ proc' = [proc EXCEPT !.pc = "sleeping"]
    /\ ctl' = [ctl EXCEPT !.cancelled = TRUE]
    /\ UNCHANGED <<run, probe>>
    /\ UNCHANGED <<fpVars, epVars, leVars, selVars>>

\* one second of the sleep passes.  A pass whose context is cancelled fails at
\* its next API call and returns well within a second, so no pass is in
\* flight across a tick.
SleepTick ==
    /\ proc.pc = "sleeping"
    /\ proc.slept < ShutdownSleep(proc.cmd)
    /\ run.pc = "idle"
    /\ proc' = [proc EXCEPT !.slept = @ + 1]
    /\ UNCHANGED <<ctl, run, probe>>
    /\ UNCHANGED <<fpVars, epVars, leVars, selVars>>

\* the command function returns and the process ends, whatever its other
\* goroutines are doing
Exit ==
    /\ proc.pc = "sleeping"
    /\ proc.slept = ShutdownSleep(proc.cmd)
    /\ proc' = [proc EXCEPT !.pc = "exited"]
    /\ UNCHANGED <<ctl, run, probe>>
    /\ UNCHANGED <<fpVars, epVars, leVars, selVars>>

\* GET /readyz on the health port, which the manager and crd commands set
Probe ==
    /\ Alive
    /\ proc.cmd # "controller"
    /\ ctl.phase \in {"serving", "running"}
    /\ ~ctl.cancelled
    /\ probe' = [code |-> ReadyzCheck(ctl), synced |-> ctl.phase = "running",
                 watch |-> ctl.watch]
    /\ UNCHANGED <<proc, ctl, run>>
    /\ UNCHANGED <<fpVars, epVars, leVars, selVars>>

\* the process of one of the three commands, about to call mgr.Start
NewManagerProcess ==
    /\ proc \in [cmd : ManagerCommands, pc : {"waiting"}, slept : {0}]
    /\ ctl \in [phase : {"new"}, watch : {"ok", "failing"}, queue : {0},
                cancelled : {FALSE}]
    /\ run = NoReconcile
    /\ probe = NoProbe

(***************************************************************************)
(* The label selector filter (cmd/api.go 341-367, cmd/cashe.go 503-508).   *)
(* A Go string is the sequence of its characters.                          *)
(***************************************************************************)
\* the longest labelSelector a request carries
MaxSelectorLen == 4

Letters == {"k", "v", "w"}

SelectorChars == Letters \cup {"=", "!", " "}

Strings(chars, n) == UNION {[1..m -> chars] : m \in 0..n}

\* strings.Contains
Contains(str, sub) ==
    \E i \in 1..(Len(str) - Len(sub) + 1) : SubSeq(str, i, i + Len(sub) - 1) = sub

\* strings.Index, for a string that contains sub
Index(str, sub) ==
    CHOOSE i \in 1..(Len(str) - Len(sub) + 1) :
        /\ SubSeq(str, i, i + Len(sub) - 1) = sub
        /\ \A j \in 1..(i - 1) : SubSeq(str, j, j + Len(sub) - 1) # sub

\* strings.SplitN(str, sep, 2): cut at the first sep, or the string alone
SplitN2(str, sep) ==
    IF Contains(str, sep)
    THEN <<SubSeq(str, 1, Index(str, sep) - 1),
           SubSeq(str, Index(str, sep) + Len(sep), Len(str))>>
    ELSE <<str>>

\* strings.TrimSpace
RECURSIVE TrimSpace(_)
TrimSpace(str) ==
    IF str = <<>> THEN str
    ELSE IF Head(str) = " " THEN TrimSpace(Tail(str))
    ELSE IF str[Len(str)] = " " THEN TrimSpace(SubSeq(str, 1, Len(str) - 1))
    ELSE str

\* a Go map[string]string: nil, or its entries
NilLabels == [nil |-> TRUE, entries |-> <<>>]

Labels(entries) == [nil |-> FALSE, entries |-> entries]

\* labels[key]: the value, or "" when the key is absent
Lookup(labels, key) ==
    IF key \in DOMAIN labels.entries THEN labels.entries[key] ELSE <<>>

\* cmd/api.go 341-367
matchesLabelSelector(labels, selector) ==
    IF labels.nil THEN FALSE
    ELSE IF Contains(selector, <<"=">>) /\ Len(SplitN2(selector, <<"=">>)) = 2
    THEN LET parts == SplitN2(selector, <<"=">>)
         IN  Lookup(labels, TrimSpace(parts[1])) = TrimSpace(parts[2])
    ELSE IF Contains(selector, <<"!", "=">>)
              /\ Len(SplitN2(selector, <<"!", "=">>)) = 2
    THEN LET parts == SplitN2(selector, <<"!", "=">>)
         IN  Lookup(labels, TrimSpace(parts[1])) # TrimSpace(parts[2])
    ELSE selector \in DOMAIN labels.entries

\* cmd/cashe.go 503-508: a request without labelSelector keeps the Deployment
filterKeepsAll ==
    /\ list.pc = "filtering"
    /\ list.labelSelector = <<>>
    /\ list' = [list EXCEPT !.pc = "done", !.kept = TRUE]
    /\ UNCHANGED <<fpVars, epVars, leVars, mgVars>>

\* cmd/cashe.go 503-508: with a labelSelector the Deployment is kept when
\* matchesLabelSelector says so
filterByLabelSelector ==
    /\ list.pc = "filtering"
    /\ list.labelSelector # <<>>
    /\ list' = [list EXCEPT !.pc = "done",
                            !.kept = matchesLabelSelector(list.labels,
                                                          list.labelSelector)]
    /\ UNCHANGED <<fpVars, epVars, leVars, mgVars>>

\* the label maps a Deployment can carry: none, or values for some of the keys
LabelKeys == {<<"k">>, <<"v">>}

LabelValues == {<<>>, <<"v">>, <<"w">>}

LabelMaps ==
    {NilLabels} \cup
        {Labels(m) : m \in UNION {[D -> LabelValues] : D \in SUBSET LabelKeys}}

\* a list request meets a Deployment
ListRequests ==
    list \in [labels : LabelMaps,
              labelSelector : Strings(SelectorChars, MaxSelectorLen),
              pc : {"filtering"}, kept : {FALSE}]

(***************************************************************************)
(* Specifications.  Each one runs one part and pins the other two to a     *)
(* fixed initial state.                                                    *)
(***************************************************************************)
IdleFP ==
    /\ fp = NoFrontendPage
    /\ dep = NoDeployment
    /\ svc = NoService
    /\ rec = IdleRec
    /\ writes = <<>>
    /\ passes = 0
    /\ dc = NoOutcome

IdleEP ==
    /\ NewEventProcessor
    /\ config.EnableUpdateHandling /\ config.EnableDeleteHandling

IdleLE ==
    /\ lease = [holder |-> NoHolder]
    /\ mgr = [i \in Instances |-> NewManager(TRUE)]

IdleMG ==
    /\ proc = [cmd |-> "manager", pc |-> "waiting", slept |-> 0]
    /\ ctl = [phase |-> "new", watch |-> "ok", queue |-> 0, cancelled |-> FALSE]
    /\ run = NoReconcile
    /\ probe = NoProbe

IdleSel ==
    list = [labels |-> NilLabels, labelSelector |-> <<>>,
            pc |-> "filtering", kept |-> FALSE]

NextFP ==
    \/ StartReconcile
    \/ ReconcileGet
    \/ ReconcilePending
    \/ ReconcileDeployment
    \/ ReconcileService
    \/ ReconcileFailed
    \/ ReconcileStatus
    \/ DeploymentControllerReconcile
    \/ EditSpec
    \/ DeleteFrontendPage
    \/ DeploymentStatusChange
    \/ GarbageCollect

InitFP == ClusterAtStart /\ IdleEP /\ IdleLE /\ IdleMG /\ IdleSel

SpecFP == InitFP /\ [][NextFP]_vars

\* The reconciler with its key requeued and the API server answering: no client
\* touches the FrontendPage; a pass that ended with an error or a requeue
\* request is started again; and a call that can succeed does not fail for
\* ever.
NextRetry ==
    \/ StartReconcile
    \/ ReconcileGet
    \/ ReconcilePending
    \/ ReconcileDeployment
    \/ ReconcileService
    \/ ReconcileFailed
    \/ ReconcileStatus
    \/ DeploymentStatusChange

\* the controller hands the key to Reconcile again: the first time, and after
\* a pass whose result put the key back in the queue
RequeuedStart ==
    /\ rec.pc = "idle" \/ Requeue(rec.result).how # "forget"
    /\ StartReconcile

FairRetry ==
    /\ WF_vars(RequeuedStart)
    /\ SF_vars(ReconcileGet /\ ~rec'.getFailed)
    /\ WF_vars(ReconcilePending)
    /\ SF_vars(ReconcileDeployment /\ rec'.depOK)
    /\ SF_vars(ReconcileService /\ rec'.svcOK)
    /\ WF_vars(ReconcileFailed)
    /\ SF_vars(ReconcileStatus /\ writes'[Len(writes')].ok)

InitRetry == ClusterAtStart /\ IdleEP /\ IdleLE /\ IdleMG /\ IdleSel

SpecRetry == InitRetry /\ [][NextRetry]_vars /\ FairRetry

NextEP ==
    \/ StartInformer
    \/ StartWorkers
    \/ InformerAdd
    \/ InformerUpdate
    \/ InformerDelete
    \/ InformerExit
    \/ Stop
    \/ CancelContext
    \/ \E w \in Workers : WorkerSelect(w)
    \/ \E w \in Workers : WorkerGet(w)
    \/ \E w \in Workers : WorkerDone(w)

InitEP == NewEventProcessor /\ IdleFP /\ IdleLE /\ IdleMG /\ IdleSel

SpecEP == InitEP /\ [][NextEP]_vars

\* the api-server command: the same EventProcessor with the HTTP server beside it
NextAPI ==
    \/ StartInformer
    \/ StartWorkers
    \/ InformerAdd
    \/ InformerUpdate
    \/ InformerDelete
    \/ InformerExit
    \/ Stop
    \/ CancelContext
    \/ \E w \in Workers : WorkerSelect(w)
    \/ \E w \in Workers : WorkerGet(w)
    \/ \E w \in Workers : WorkerDone(w)
    \/ ApiRead
    \/ ApiReturn

InitAPI == NewEventProcessor /\ IdleFP /\ IdleLE /\ IdleMG /\ IdleSel

SpecAPI == InitAPI /\ [][NextAPI]_vars

NextLE ==
    \/ \E i \in Instances : ManagerStart(i)
    \/ \E i \in Instances : Observe(i)
    \/ \E i \in Instances : Acquire(i)
    \/ \E i \in Instances : Renew(i)
    \/ \E i \in Instances : LoseLease(i)
    \/ \E i \in Instances : Crash(i)
    \/ Tick

InitLE == ManagerFlags /\ IdleFP /\ IdleEP /\ IdleMG /\ IdleSel

SpecLE == InitLE /\ [][NextLE]_vars

NextMG ==
    \/ StartProbes
    \/ CacheSync
    \/ CacheSyncTimeout
    \/ WatchChange
    \/ EventArrives
    \/ ReconcileBegin
    \/ ReconcileCall
    \/ ReconcileReturn
    \/ Signal
    \/ SleepTick
    \/ Exit
    \/ Probe

InitMG == NewManagerProcess /\ IdleFP /\ IdleEP /\ IdleLE /\ IdleSel

SpecMG == InitMG /\ [][NextMG]_vars

NextSel ==
    \/ filterKeepsAll
    \/ filterByLabelSelector

InitSel == ListRequests /\ IdleFP /\ IdleEP /\ IdleLE /\ IdleMG

SpecSel == InitSel /\ [][NextSel]_vars

(***************************************************************************)
(* Properties of the FrontendPage reconciler, checked under SpecFP         *)
(***************************************************************************)
ChildKinds == {"Deployment", "Service"}

PassDone == rec.pc = "done"

LastWriteOK == writes # <<>> /\ writes[Len(writes)].ok

\* C2: idempotence.  When a pass follows a pass that returned no error, with no
\* outside change before or between them, the second pass issues no create,
\* update or status-update call.
C2_SecondPassIssuesNoWrite ==
    (PassDone /\ passes = 2) => writes = <<>>

\* C3: not-found tolerance.  When the object is gone at fetch time, Reconcile of
\* the FrontendPage reconciler and of the Deployment controller returns the
\* empty result and a nil error, and the FrontendPage pass has issued no write.
C3_NotFoundIsSuccess ==
    /\ (PassDone /\ rec.notFound) => (rec.result = NoResult /\ writes = <<>>)
    /\ (dc.ran /\ dc.notFound) => dc.result = NoResult

C3_Witness ==
    /\ PassDone /\ rec.notFound /\ ~fp.exists
    /\ dc.ran /\ dc.notFound /\ ~dep.exists

\* C4: owner linkage.  Every create or update of a child the reconciler issues
\* carries the FrontendPage's UID as controller owner, and so does every child
\* in the cluster that the reconciler wrote last.
C4_ChildWritesCarryOwner ==
    /\ \A i \in 1..Len(writes) :
         writes[i].kind \in ChildKinds => writes[i].owner = FPUID
    /\ (dep.exists /\ dep.writer = "reconciler") => dep.owner = FPUID
    /\ (svc.exists /\ svc.writer = "reconciler") => svc.owner = FPUID

C4_Witness ==
    /\ dep.exists /\ dep.writer = "reconciler"
    /\ svc.exists /\ svc.writer = "reconciler"
    /\ \E i \in 1..Len(writes) : writes[i].kind = "Deployment" /\ writes[i].ok
    /\ \E i \in 1..Len(writes) : writes[i].kind = "Service" /\ writes[i].ok

\* the Deployment that createOrUpdateDeployment returned has
\* readyReplicas = replicas = desired replicas > 0, and both children succeeded
ChildrenReady ==
    /\ rec.depOK /\ rec.svcOK
    /\ rec.depReadyReplicas = rec.depStatusReplicas
    /\ rec.depStatusReplicas = rec.depReplicas
    /\ rec.depReplicas > 0

\* C5 as stated: with such a Deployment and both child writes successful, after
\* Reconcile the status is phase "Running", ready, and no requeue is requested.
C5_ReadyGivesRunning ==
    (PassDone /\ ChildrenReady) =>
        /\ fp.status.phase = "Running" /\ fp.status.ready
        /\ rec.result = NoResult

\* C5 amended: the same, provided the final status update is accepted.
C5_ReadyGivesRunningIfStatusWritten ==
    (PassDone /\ ChildrenReady /\ LastWriteOK) =>
        /\ fp.status.phase = "Running" /\ fp.status.ready
        /\ rec.result = NoResult

C5_Witness ==
    /\ PassDone /\ ChildrenReady /\ LastWriteOK
    /\ fp.status.phase = "Running"

\* C9: every status write sets status.observedGeneration to the generation of
\* the object written.
C9_StatusWritesCarryGeneration ==
    \A i \in 1..Len(writes) :
        writes[i].verb = "statusUpdate" =>
            writes[i].observedGeneration = writes[i].generation

\* C10: on first sight (empty phase) the first call of the pass is the status
\* update to "Pending"; a child is written only after it succeeded; when it
\* fails, it is the only call of the pass and the pass returns the error.
C10_PendingBeforeChildren ==
    rec.firstSight =>
        /\ rec.pc \notin {"get", "pending"} =>
              /\ writes # <<>>
              /\ writes[1].verb = "statusUpdate" /\ writes[1].phase = "Pending"
        /\ \A i \in 1..Len(writes) :
              writes[i].kind \in ChildKinds => (i > 1 /\ writes[1].ok)
        /\ (writes # <<>> /\ ~writes[1].ok) =>
              (Len(writes) = 1 /\ PassDone /\ rec.result.err)

C10_Witness ==
    /\ rec.firstSight
    /\ Len(writes) >= 2 /\ writes[1].ok /\ writes[2].kind = "Deployment"

\* a child create-or-update failed in this pass
ChildFailed == rec.message # ""

LastWrite == writes[Len(writes)]

\* C11: when a child create-or-update fails, the status is written with phase
\* "Failed" and ready = false, and the key is retried after a fixed 30 seconds.
C11_ChildFailureFixedDelay ==
    (PassDone /\ ChildFailed) =>
        /\ writes # <<>>
        /\ LastWrite.verb = "statusUpdate"
        /\ LastWrite.phase = "Failed" /\ ~LastWrite.ready
        /\ Requeue(rec.result) = [how |-> "after", seconds |-> RequeueAfterSeconds]

\* both children succeeded and the Deployment that createOrUpdateDeployment
\* returned is not ready: its ready count differs from its count, or it has none
ChildrenNotReady ==
    /\ rec.depOK /\ rec.svcOK
    /\ \/ rec.depReadyReplicas # rec.depStatusReplicas
       \/ rec.depStatusReplicas = 0

PendingRequeued ==
    /\ rec.result = [requeueAfter |-> RequeueAfterSeconds, err |-> FALSE]
    /\ Requeue(rec.result) = [how |-> "after", seconds |-> RequeueAfterSeconds]

\* C12 as stated: both child writes succeeded and the Deployment is not ready:
\* the pass writes phase "Pending", ready = false and returns nil with
\* RequeueAfter = 30 s.
C12_NotReadyGivesPendingRequeue ==
    (PassDone /\ ChildrenNotReady) =>
        /\ LastWrite.verb = "statusUpdate"
        /\ LastWrite.phase = "Pending" /\ ~LastWrite.ready
        /\ PendingRequeued

\* C12 amended: the same, provided the final status update is accepted; the
\* stored status is then "Pending", not ready.
C12_NotReadyGivesPendingIfStatusWritten ==
    (PassDone /\ ChildrenNotReady /\ LastWriteOK) =>
        /\ LastWrite.verb = "statusUpdate"
        /\ LastWrite.phase = "Pending" /\ ~LastWrite.ready
        /\ fp.status.phase = "Pending" /\ ~fp.status.ready
        /\ PendingRequeued

C12_Witness ==
    /\ PassDone /\ ChildrenNotReady /\ LastWriteOK
    /\ rec.depStatusReplicas > 0
    /\ fp.status.phase = "Pending"
    /\ rec.result.requeueAfter = RequeueAfterSeconds

\* C13: an update of a child that already exists is issued only when a field
\* the reconciler sets differs between the existing and the desired object; a
\* pass after a change of spec.replicas alone issues no write to the Service.
C13_UpdateOnlyOnDifference ==
    \A i \in 1..Len(writes) :
        writes[i].verb = "update" => writes[i].differs

\* the pass found the FrontendPage and returned a nil error
PassSucceeded == PassDone /\ ~rec.notFound /\ ~rec.result.err

ReconcilerWrote == Len(writes') = Len(writes) + 1

\* C21: the reconciler changes the FrontendPage through status updates only:
\* no step in which it issues a call changes the object's spec, generation,
\* identity or existence, and every call it makes on a FrontendPage is a
\* status update.
C21_OnlyStatusWritten ==
    [][ReconcilerWrote =>
         /\ fp'.spec = fp.spec /\ fp'.generation = fp.generation
         /\ fp'.uid = fp.uid /\ fp'.exists = fp.exists
         /\ LET call == writes'[Len(writes')]
            IN  call.kind = "FrontendPage" => call.verb = "statusUpdate"]_vars

\* a pass has written status Running on a FrontendPage that leaves replicas
\* and image out, and the spec still leaves them out
C21_Witness ==
    /\ PassDone /\ LastWriteOK
    /\ writes[Len(writes)].verb = "statusUpdate"
    /\ fp.status.phase = "Running"
    /\ fp.spec.replicas = 0 /\ fp.spec.image = ""

Phases == {"Pending", "Running", "Failed"}

\* the status writes of the pass so far: each sets one of the three phases,
\* "Failed" only after a child call of this pass failed, "Running" only after
\* both child calls of this pass succeeded
StatusWritesInOrder ==
    \A i \in 1..Len(writes) :
        writes[i].kind = "FrontendPage" =>
            /\ writes[i].phase \in Phases
            /\ writes[i].phase = "Failed" => (ChildFailed /\ ~(rec.depOK /\ rec.svcOK))
            /\ writes[i].phase = "Running" => (rec.depOK /\ rec.svcOK /\ ~ChildFailed)

\* C22: phase state machine.  Every status write of the reconciler sets phase
\* Pending, Running or Failed; the stored phase of a FrontendPage, once not
\* empty, never becomes empty again; Failed is written only in a pass in which
\* a child create-or-update failed and Running only in a pass in which both
\* succeeded.
C22_PhaseStateMachine ==
    [][/\ StatusWritesInOrder'
       /\ (fp.exists /\ fp'.exists /\ fp.status.phase # "")
             => fp'.status.phase \in Phases]_vars

\* a pass in which a child call failed has stored phase Failed over an earlier
\* phase
C22_Witness ==
    /\ PassDone /\ ChildFailed /\ LastWriteOK
    /\ ~rec.firstSight
    /\ writes[Len(writes)].phase = "Failed"
    /\ fp.status.phase = "Failed"

\* a cluster API call of the pass returned an error other than not-found on
\* the initial get
ApiErrorInPass ==
    \/ rec.getFailed
    \/ ChildFailed
    \/ \E i \in 1..Len(writes) : ~writes[i].ok

\* C23: every error of a cluster API call inside Reconcile, other than
\* not-found on the initial get, makes Reconcile return an error or a requeue
\* request, so that the controller puts the key back in its queue.
C23_ApiErrorsRetried ==
    (PassDone /\ ApiErrorInPass) => Requeue(rec.result).how # "forget"

\* both child calls succeeded and the final status update was refused: the
\* pass returned the error
C23_Witness ==
    /\ PassDone /\ rec.depOK /\ rec.svcOK
    /\ writes # <<>> /\ ~writes[Len(writes)].ok
    /\ Requeue(rec.result).how = "rateLimited"

\* neither child has another controller owner, so the child calls can succeed
ChildrenCanSucceed ==
    /\ CanSetControllerReference(fp, dep)
    /\ CanSetControllerReference(fp, svc)

C27_RunningOnlyWhenDesiredReady ==
    (PassDone /\ rec.depOK /\ rec.svcOK /\ LastWriteOK
       /\ LastWrite.verb = "statusUpdate" /\ LastWrite.phase = "Running") =>
        /\ LastWrite.ready
        /\ rec.depReadyReplicas = rec.depReplicas
        /\ rec.depReplicas > 0

\* C28: the environment list of the Deployment that createOrUpdateDeployment
\* has just written or found as wanted is FRONTEND_TITLE, FRONTEND_DESCRIPTION,
\* FRONTEND_PATH followed by one entry per key of spec.config, and no
\* variable name is in the list twice.
C28_EnvFixedPlusConfigNoDuplicate ==
    (rec.pc = "service" /\ rec.depOK /\ dep.exists) =>
        /\ Len(dep.env) = Len(FixedEnv) + Cardinality(rec.fp.spec.config)
        /\ SubSeq(dep.env, 1, Len(FixedEnv)) = FixedEnv
        /\ {dep.env[i] : i \in Len(FixedEnv) + 1 .. Len(dep.env)} = rec.fp.spec.config
        /\ \A i, j \in DOMAIN dep.env : dep.env[i] = dep.env[j] => i = j

\* the requeue that DeploymentController.Reconcile asks for after 30 seconds
RequeueIn30 == [requeueAfter |-> RequeueAfterSeconds, err |-> FALSE]

\* C29 as stated: DeploymentController.Reconcile writes nothing; it returns
\* RequeueAfter = 30 s with a nil error exactly when the Deployment exists and
\* its readyReplicas differs from its spec.replicas, and an empty result
\* otherwise.
C29_ReadOnlyRequeueIffNotReady ==
    [][DeploymentControllerReconcile =>
         /\ UNCHANGED <<fp, dep, svc, writes>>
         /\ (dc'.result = RequeueIn30)
               <=> (dep.exists /\ dep.readyReplicas # dep.replicas)
         /\ dc'.result # RequeueIn30 => dc'.result.requeueAfter = 0]_vars

\* C29 (amended): DeploymentController.Reconcile writes nothing; when its Get
\* fails with an error other than not-found it returns that error with an
\* empty result; when the Get succeeds or finds nothing it returns a nil error,
\* with RequeueAfter = 30 s exactly when the Deployment exists and its
\* readyReplicas differs from its spec.replicas and an empty result otherwise.
C29_ReadOnlyRequeueIffReadNotReady ==
    [][DeploymentControllerReconcile =>
         /\ UNCHANGED <<fp, dep, svc, writes>>
         /\ dc'.result.err => dc'.result.requeueAfter = 0
         /\ ~dc'.result.err =>
              /\ (dc'.result = RequeueIn30)
                    <=> (dep.exists /\ dep.readyReplicas # dep.replicas)
              /\ dc'.result # RequeueIn30 => dc'.result = NoResult]_vars

\* the controller has asked for a requeue for a Deployment that has pods, all
\* of them ready, but fewer than spec.replicas
C29_Witness ==
    /\ dc.ran /\ dc.result = RequeueIn30
    /\ dep.exists /\ dep.replicas > dep.statusReplicas
    /\ dep.statusReplicas = dep.readyReplicas /\ dep.readyReplicas > 0

(***************************************************************************)
(* Properties of the label selector filter                                 *)
(***************************************************************************)
\* label keys and values as a selector names them: letters only
SelectorKeys == Strings(Letters, MaxSelectorLen) \ {<<>>}

SelectorValues == Strings(Letters, MaxSelectorLen) \ {<<>>}

\* C30: matchesLabelSelector gives, for a label map that is not nil: for the
\* selector "k=v" whether labels[k] equals v, for "k!=v" whether labels[k]
\* differs from v, for a bare "k" whether the key k is present; for a nil
\* label map it gives false.
C30_SelectorForms ==
    (list.pc = "done" /\ list.labelSelector # <<>>) =>
        /\ list.labels.nil => ~list.kept
        /\ ~list.labels.nil =>
             \A key \in SelectorKeys :
                 /\ list.labelSelector = key
                      => (list.kept <=> key \in DOMAIN list.labels.entries)
                 /\ \A value \in SelectorValues :
                      /\ list.labelSelector = key \o <<"=">> \o value
                           => (list.kept <=> Lookup(list.labels, key) = value)
                      /\ list.labelSelector = key \o <<"!", "=">> \o value
                           => (list.kept <=> Lookup(list.labels, key) # value)

(***************************************************************************)
(* Properties of the EventProcessor's queue, checked under SpecEP          *)
(***************************************************************************)
\* the queue never holds an item twice, and holds exactly the marked items that
\* no worker is processing
QueueWellFormed ==
    \A item \in Items :
        /\ Count(workqueue.queue, item) <= 1
        /\ Count(workqueue.queue, item) = 1
              <=> (item \in workqueue.dirty /\ item \notin workqueue.processing)

\* C6 as stated: a work item added N >= 1 times while a worker is processing it
\* is not queued before Done and is in the queue exactly once after Done, to be
\* handed to a worker once more.
C6_AddedInFlightRedeliveredOnce ==
    /\ QueueWellFormed
    /\ \A item \in DOMAIN inflight :
         inflight[item].calls >= 1 => Count(workqueue.queue, item) = 0
    /\ \A item \in DOMAIN redeliver :
         redeliver[item].calls >= 1 => Count(workqueue.queue, item) = 1

\* C6 amended: the same for the Add calls made before the queue was shut down.
C6_AcceptedInFlightRedeliveredOnce ==
    /\ QueueWellFormed
    /\ \A item \in DOMAIN inflight :
         /\ inflight[item].calls >= 1 => Count(workqueue.queue, item) = 0
         /\ inflight[item].accepted >= 1 => item \in workqueue.dirty
    /\ \A item \in DOMAIN redeliver :
         redeliver[item].accepted >= 1 => Count(workqueue.queue, item) = 1

C6_Witness ==
    \E item \in DOMAIN redeliver :
        /\ redeliver[item].accepted >= 2
        /\ Count(workqueue.queue, item) = 1
        /\ \E w \in Workers : worker[w].pc = "get"

\* the items in the queue that belong to one deployment identity
Pending(key) == {i \in DOMAIN workqueue.queue : ItemKey(workqueue.queue[i]) = key}

\* C7: the queue holds at most one pending item per deployment identity.
C7_OnePendingItemPerIdentity ==
    \A k \in Keys : Cardinality(Pending(k)) <= 1

\* C8: no two workers are processing items of the same deployment identity at
\* the same time.
C8_OneWorkerPerIdentity ==
    \A w1, w2 \in Workers :
        (w1 # w2 /\ worker[w1].pc = "process" /\ worker[w2].pc = "process")
            => ItemKey(worker[w1].item) # ItemKey(worker[w2].item)

\* C24: workers exist only once WaitForCacheSync has returned true and Start is
\* about to return nil: before that no worker is started and no item is taken
\* from the queue; when Start returns the error the context has ended and no
\* worker was started.
C24_WorkersOnlyAfterSync ==
    /\ epPhase \in {"new", "syncing", "failed"} =>
          /\ \A w \in Workers : worker[w].pc = "new"
          /\ workqueue.processing = {}
    /\ epPhase = "failed" => ctxDone

\* Start has returned nil and a worker is processing an item that a handler
\* queued
C24_Witness ==
    /\ epPhase = "running"
    /\ \E w \in Workers :
         /\ worker[w].pc = "process"
         /\ worker[w].item \in workqueue.processing

\* C26 as stated: with update handling enabled, an update event leaves the item
\* update:<key> marked in the queue exactly when replica count, image or
\* generation differ between the old and the new object, and the cache entry
\* is refreshed in every case.
C26_UpdateEnqueuedIffDiffers ==
    [][(InformerUpdate /\ config.EnableUpdateHandling) =>
         \A k \in DOMAIN store :
             (store'[k] # store[k] \/ store' = store) =>
                 /\ k \in DOMAIN deploymentCache'
                 /\ deploymentCache'[k] = store'[k]
                 /\ IF \/ store'[k].replicas # store[k].replicas
                       \/ store'[k].image # store[k].image
                       \/ store'[k].generation # store[k].generation
                    THEN WorkItem("update", k) \in workqueue'.dirty
                    ELSE workqueue' = workqueue /\ inflight' = inflight]_vars

\* C26 (amended): with update handling enabled, an update event refreshes the cache entry
\* of its Deployment in every case; when replica count, image or generation
\* differ between the old and the new object the item update:<key> is added
\* (it is marked in the queue unless the queue is shut down); when they do not
\* (a resync with the same object, a change of status only) the queue is left
\* as it was.
C26_UpdateEnqueuedIffSignificant ==
    [][(InformerUpdate /\ config.EnableUpdateHandling) =>
         \A k \in DOMAIN store :
             (store'[k] # store[k] \/ store' = store) =>
                 /\ k \in DOMAIN deploymentCache'
                 /\ deploymentCache'[k] = store'[k]
                 /\ IF \/ store'[k].replicas # store[k].replicas
                       \/ store'[k].image # store[k].image
                       \/ store'[k].generation # store[k].generation
                    THEN workqueue.shuttingDown
                           \/ WorkItem("update", k) \in workqueue'.dirty
                    ELSE workqueue' = workqueue /\ inflight' = inflight]_vars

\* an update that changed the spec has left its item in the queue, and a later
\* change of status only has refreshed the cache without adding anything
C26_Witness ==
    /\ config.EnableUpdateHandling
    /\ \E k \in DOMAIN store :
         /\ store[k].generation > 1
         /\ store[k].readyReplicas > 0
         /\ k \in DOMAIN deploymentCache /\ deploymentCache[k] = store[k]
         /\ Count(workqueue.queue, WorkItem("update", k)) = 1

\* C15: reads of e.deploymentCache by API handlers are mutually excluded from
\* the event handlers' writes: no handler writes the map while a read of it is
\* in progress.
C15_ReadsExcludeWrites == ~api.overlapped

\* C16: with every event for the changes so far delivered, a lookup by key
\* returns the latest version the informer observed of a Deployment that exists
\* and not-found for one that was deleted, whatever the two handling switches
\* are and also when the deletion came as a tombstone.
C16_LookupMatchesCluster ==
    \A k \in Keys :
        getDeploymentFromCache(k) =
            IF k \in DOMAIN store THEN [found |-> TRUE, deployment |-> store[k]]
            ELSE NotFound

\* C18: once Stop has returned (stop channel closed, queue shut down) every
\* worker goroutine that Start launched has exited, so none of them takes or
\* processes a further item.
C18_StopWaitsForWorkers ==
    (informerStop /\ workqueue.shuttingDown) =>
        \A w \in Workers : worker[w].pc \in {"new", "exited"}

(***************************************************************************)
(* Properties of the election, checked under SpecLE                        *)
(***************************************************************************)
\* both processes were started with leader election enabled: they compete for
\* the one lease
BothCompete == \A i \in Instances : mgr[i].config.LeaderElection

C19_NoExitOverRunningReconcile ==
    proc.pc = "exited" => ~(run.pc = "running" /\ ~run.sawCancel)

\* C20: /readyz answers 200 only when the caches have completed their initial
\* sync and the watch stream is not failing; and a failing watch stream never
\* ends the process.
C20_ReadyOnlyWhenSynced ==
    /\ probe.code = 200 => (probe.synced /\ probe.watch = "ok")
    /\ ~(ctl.phase = "failed" /\ proc.pc = "exited")

====
